---- MODULE Spec2Model ----
(***************************************************************************)
(* RAMate: a retrieval-augmented chat assistant.                           *)
(*                                                                         *)
(* The module models the parts of the repository, each with its own        *)
(* specification over the shared variables:                                *)
(*   SpecChunk    the Document Processor's chunk_text loop                 *)
(*   SpecIngest   process_pdf_folder over a folder with unreadable files   *)
(*   SpecConf     the Answer Generator's calculate_confidence              *)
(*   SpecServer   the API boundary: /api/chat and /api/status              *)
(*   SpecReload   chat requests served while /api/admin/reload rebuilds    *)
(*   SpecLog      concurrent requests writing the two logs                 *)
(*   SpecQuery    one retrieval: similarity search, ranking, sources       *)
(*   SpecClient   the chat page of the front end (handleSendMessage);      *)
(*                FairClient adds that every request sent settles          *)
(*   SpecInput    the chat input (ChatInput.handleSubmit)                  *)
(*   SpecFeedback the Message component of an answer and its feedback      *)
(*   SpecDisplay  the confidence label and colour of an answer             *)
(*   SpecStatus   the status indicator and its periodic checks             *)
(* Strings are sequences of characters; character 0 is the space.          *)
(***************************************************************************)
EXTENDS Integers, Sequences, FiniteSets, TLC

VARIABLES
    \* ---- Document Processor (chunk_text) ----
    ck_sentences,   \* the sentences split_into_sentences returned
    ck_size,        \* the chunk_size argument
    ck_overlap,     \* the overlap argument
    ck_i,           \* index of the next sentence the for loop visits
    ck_current,     \* current_chunk
    ck_chunks,      \* chunks
    ck_pc,          \* "loop" | "done"
    \* ---- Answer Generator (calculate_confidence) ----
    cf_sources,     \* number of retrieved sources handed to calculate_confidence
    cf_scores,      \* the four component scores, in thousandths
    cf_conf,        \* the returned confidence, in thousandths
    cf_pc,          \* "input" | "done"
    \* ---- Backend: vector store, /api/chat, /api/status, /api/admin/reload ----
    sv_index,       \* the collection queries read: chunk ids in insertion order
    sv_storeUp,     \* whether the vector store can be reached
    sv_build,       \* the reload in progress, if any
    sv_complete,    \* the chunk set of the last completed ingestion
    sv_req,         \* per chat request: position, query, retrieval, POSTs, response
    sv_status,      \* the last /api/status response, or none
    sv_config,      \* OPENROUTER_CONFIG as read from the environment at startup
    \* ---- Backend: one retrieval (search_documents, ranking, sources) ----
    qr_index,       \* the collection queried: chunk ids in insertion order
    qr_k,           \* the argument k
    qr_raw,         \* what collection.query returned
    qr_results,     \* the ranked chunks retrieved
    qr_sources,     \* the sources of the answer
    qr_pc,          \* "input" | "searched" | "ranked" | "done"
    \* ---- Backend: the interaction and feedback logs ----
    lg_interactions,\* the lines of the interaction log
    lg_feedback,    \* the lines of the feedback log
    lg_writers,     \* per request that logs a record: position, log, what it read
    \* ---- Backend: document ingestion (process_pdf_folder) ----
    in_docs,        \* the PDF files of the folder: readable or not, their chunks
    in_i,           \* index of the next file the loop visits
    in_chunks,      \* the chunks collected so far
    in_failures,    \* the failures recorded so far
    in_pc,          \* "loop" | "done"
    \* ---- Front end: the chat page (page.tsx) ----
    ui_messages,    \* messages
    ui_isLoading,   \* isLoading
    ui_apiAvailable,\* apiAvailable
    ui_render,      \* the state values the last render handed to the handlers
    ui_reqs,        \* the calls of handleSendMessage that reached the request
    ui_health,      \* the availability check started on mount
    ui_now,         \* Date.now()
    ui_sessionId,   \* sessionId
    \* ---- Front end: one answer's Message component (Message.tsx) ----
    fb_response,    \* the /api/chat response body the answer came from
    fb_props,       \* the props the page hands to Message
    fb_feedback,    \* feedback
    fb_feedbackSent,\* feedbackSent
    fb_showForm,    \* showFeedbackForm
    fb_comment,     \* feedbackComment
    fb_render,      \* the state values the last render handed to the handlers
    fb_posts,       \* the POSTs to /api/feedback, in the order they were sent
    fb_timers,      \* pending setTimeout(() => setFeedbackSent(false), 3000)
    \* ---- Front end: the chat input (ChatInput.tsx) ----
    ci_message,     \* message, the text of the textarea
    ci_props,       \* the props isLoading and disabled
    ci_submits,     \* how many times handleSubmit has run
    ci_calls,       \* how many times onSendMessage has been called
    ci_last,        \* the argument of the last call of onSendMessage
    \* ---- Front end: the confidence shown with an answer (utils.ts) ----
    cd_confidence,  \* the confidence of the answer, in thousandths
    cd_label,       \* what formatConfidence returned
    cd_color,       \* what getConfidenceColor returned
    cd_pc,          \* "input" | "done"
    \* ---- Front end: the status indicator (StatusIndicator.tsx) ----
    st_status,      \* status: "null" or the body of the last response set
    st_isLoading,   \* isLoading
    st_error,       \* error: "null" or a message
    st_checks       \* the calls of checkStatus, in the order they started

chunkVars == <<ck_sentences, ck_size, ck_overlap, ck_i, ck_current, ck_chunks, ck_pc>>
confVars  == <<cf_sources, cf_scores, cf_conf, cf_pc>>
queryVars == <<qr_index, qr_k, qr_raw, qr_results, qr_sources, qr_pc>>
logVars == <<lg_interactions, lg_feedback, lg_writers>>
ingestVars == <<in_docs, in_i, in_chunks, in_failures, in_pc>>
serverVars == <<sv_index, sv_storeUp, sv_build, sv_complete, sv_req, sv_status,
                sv_config, queryVars, logVars, ingestVars>>
pageVars == <<ui_messages, ui_isLoading, ui_apiAvailable, ui_render, ui_reqs,
              ui_health, ui_now, ui_sessionId>>
feedbackVars == <<fb_response, fb_props, fb_feedback, fb_feedbackSent, fb_showForm,
                  fb_comment, fb_render, fb_posts, fb_timers>>
inputVars == <<ci_message, ci_props, ci_submits, ci_calls, ci_last>>
displayVars == <<cd_confidence, cd_label, cd_color, cd_pc>>
statusVars == <<st_status, st_isLoading, st_error, st_checks>>
clientVars == <<pageVars, feedbackVars, inputVars, displayVars, statusVars>>
vars == <<chunkVars, confVars, serverVars, clientVars>>

(***************************************************************************)
(* Bounds of the model.                                                    *)
(***************************************************************************)
MaxSentences == 4
MaxSentLen == 5
MaxChunkSize == 5
ScoreGrid == 6
MaxRequests == 1
MaxRuns == 2
MaxChunks == 2
MaxSends == 2
MaxTime == 1
MaxQueryIds == 2
MaxPosts == 2
MaxWriters == 3
MaxDocs == 3
MaxDocChunks == 2
MaxSubmits == 2
MaxRandom == 2
MaxOverlap == 2
MaxQueryChunks == 4
MaxK == 3
MaxChecks == 3

(***************************************************************************)
(* Helpers on sequences.                                                   *)
(***************************************************************************)
Space == 0

RECURSIVE SeqsUpTo(_, _)
SeqsUpTo(S, n) ==
    IF n = 0 THEN {<<>>}
    ELSE LET shorter == SeqsUpTo(S, n - 1)
         IN  shorter \cup {Append(s, x) : s \in {t \in shorter : Len(t) = n - 1}, x \in S}

\* Python str.strip(): leading and trailing whitespace removed.
RECURSIVE lstrip(_)
lstrip(s) == IF s # <<>> /\ Head(s) = Space THEN lstrip(Tail(s)) ELSE s

RECURSIVE rstrip(_)
rstrip(s) ==
    IF s # <<>> /\ s[Len(s)] = Space THEN rstrip(SubSeq(s, 1, Len(s) - 1)) ELSE s

strip(s) == lstrip(rstrip(s))

(***************************************************************************)
(* Document Processor: chunk_text(text, chunk_size, overlap).              *)
(* Sentence number i of the input is written with the character i, so a    *)
(* chunk shows which sentences it holds.                                   *)
(***************************************************************************)
SentenceText(i, n) == [j \in 1..n |-> i]

\* The inputs: up to MaxSentences sentences, each 1..MaxSentLen characters.
SentenceInputs ==
    {[i \in 1..Len(lens) |-> SentenceText(i, lens[i])] :
        lens \in SeqsUpTo(1..MaxSentLen, MaxSentences)}

\* A plausible slip: the length test forgets what current_chunk already holds.
fits_sentence_only(current_chunk, sentence, chunk_size) ==
    Len(sentence) < chunk_size

\* if len(current_chunk) + len(sentence) < chunk_size
fits(current_chunk, sentence, chunk_size) ==
    Len(current_chunk) + Len(sentence) < chunk_size

\* The body of "for sentence in sentences", on (chunks, current_chunk).
chunk_loop_body(chunks, current_chunk, sentence, chunk_size) ==
    IF fits(current_chunk, sentence, chunk_size)
    THEN [chunks |-> chunks,
          current_chunk |-> current_chunk \o sentence \o <<Space>>]
    ELSE [chunks |-> IF current_chunk # <<>>
                     THEN Append(chunks, strip(current_chunk))
                     ELSE chunks,
          current_chunk |-> sentence \o <<Space>>]

\* A plausible slip: the final chunk is never added.
chunk_final_dropped(chunks, current_chunk) == chunks

\* "Add final chunk": if current_chunk: chunks.append(current_chunk.strip())
chunk_final(chunks, current_chunk) ==
    IF current_chunk # <<>> THEN Append(chunks, strip(current_chunk)) ELSE chunks

ChunkInit ==
    /\ ck_sentences \in SentenceInputs
    /\ ck_size \in 1..MaxChunkSize
    /\ ck_overlap \in 1..MaxOverlap
    /\ ck_i = 1
    /\ ck_current = <<>>
    /\ ck_chunks = <<>>
    /\ ck_pc = "loop"

\* One iteration of the for loop.
ChunkStep ==
    /\ ck_pc = "loop"
    /\ ck_i <= Len(ck_sentences)
    /\ LET r == chunk_loop_body(ck_chunks, ck_current, ck_sentences[ck_i], ck_size)
       IN  /\ ck_chunks' = r.chunks
           /\ ck_current' = r.current_chunk
    /\ ck_i' = ck_i + 1
    /\ UNCHANGED <<ck_sentences, ck_size, ck_overlap, ck_pc, confVars, serverVars, clientVars>>

\* The loop is over: the final chunk is added and chunks is returned.
ChunkReturn ==
    /\ ck_pc = "loop"
    /\ ck_i > Len(ck_sentences)
    /\ ck_chunks' = chunk_final(ck_chunks, ck_current)
    /\ ck_pc' = "done"
    /\ UNCHANGED <<ck_sentences, ck_size, ck_overlap, ck_i, ck_current, confVars,
                   serverVars, clientVars>>

\* sentences[a] + " " + ... + sentences[b], the text of a chunk that holds
\* exactly the sentences a..b.
RECURSIVE JoinSentences(_, _, _)
JoinSentences(sentences, a, b) ==
    IF a = b THEN sentences[a]
    ELSE sentences[a] \o <<Space>> \o JoinSentences(sentences, a + 1, b)

IsSentenceRun(chunk, sentences) ==
    \E a \in 1..Len(sentences) : \E b \in a..Len(sentences) :
        chunk = JoinSentences(sentences, a, b)

HoldsSentence(chunk, sentences, i) ==
    \E a \in 1..i : \E b \in i..Len(sentences) :
        chunk = JoinSentences(sentences, a, b)

\* C9: every chunk has at most chunk_size characters, unless it is exactly
\* one sentence that is itself longer than chunk_size.
C9_ChunkLengthBound ==
    \A n \in 1..Len(ck_chunks) :
        \/ Len(ck_chunks[n]) <= ck_size
        \/ \E i \in 1..Len(ck_sentences) :
              /\ ck_chunks[n] = ck_sentences[i]
              /\ Len(ck_sentences[i]) > ck_size

\* chunk_text has returned a chunk of several sentences and a chunk that is
\* one sentence longer than chunk_size.
C9_Witness ==
    /\ ck_pc = "done"
    /\ \E n \in 1..Len(ck_chunks) :
          \E i \in 1..Len(ck_sentences) :
              ck_chunks[n] = ck_sentences[i] /\ Len(ck_chunks[n]) > ck_size
    /\ \E n \in 1..Len(ck_chunks) :
          \E a \in 1..Len(ck_sentences) : \E b \in (a + 1)..Len(ck_sentences) :
              ck_chunks[n] = JoinSentences(ck_sentences, a, b)

\* C10: chunking never splits inside a sentence: every chunk returned is a
\* run of whole consecutive sentences joined by single spaces, every input
\* sentence is held intact by some chunk, and a sentence longer than
\* chunk_size is a chunk on its own, unmodified.
C10_WholeSentences ==
    ck_pc = "done" =>
        /\ \A n \in 1..Len(ck_chunks) : IsSentenceRun(ck_chunks[n], ck_sentences)
        /\ \A i \in 1..Len(ck_sentences) :
              \E n \in 1..Len(ck_chunks) : HoldsSentence(ck_chunks[n], ck_sentences, i)
        /\ \A i \in 1..Len(ck_sentences) :
              Len(ck_sentences[i]) > ck_size =>
                  \E n \in 1..Len(ck_chunks) : ck_chunks[n] = ck_sentences[i]

\* C21: any two consecutive chunks overlap: the next chunk begins with the
\* trailing sentences of the previous one, and the text they share has at
\* most chunk_overlap characters.
C21_ChunksOverlap ==
    ck_pc = "done" =>
        \A n \in 1..(Len(ck_chunks) - 1) :
            \E k \in 1..ck_overlap :
                /\ k <= Len(ck_chunks[n]) /\ k <= Len(ck_chunks[n + 1])
                /\ SubSeq(ck_chunks[n], Len(ck_chunks[n]) - k + 1, Len(ck_chunks[n]))
                       = SubSeq(ck_chunks[n + 1], 1, k)
                /\ IsSentenceRun(SubSeq(ck_chunks[n + 1], 1, k), ck_sentences)

\* chunk_text has returned at least three chunks, the middle one a sentence
\* longer than chunk_size standing between two ordinary chunks.
C10_Witness ==
    /\ ck_pc = "done"
    /\ Len(ck_chunks) >= 3
    /\ \E n \in 2..(Len(ck_chunks) - 1) :
          /\ Len(ck_chunks[n]) > ck_size
          /\ Len(ck_chunks[n - 1]) <= ck_size
          /\ Len(ck_chunks[n + 1]) <= ck_size

(***************************************************************************)
(* Answer Generator: calculate_confidence(query, response, sources).       *)
(* Scores are fixed-point numbers in thousandths (1000 is 1.0).            *)
(***************************************************************************)
One == 1000

\* The values a component score takes in the model: a grid over [0, 1].
Scores == {(i * One) \div ScoreGrid : i \in 0..ScoreGrid}

\* round(confidence, 3) of a value given in ten-thousandths.  The float sum
\* is inexact, so a value half way between two thousandths can go either way.
round3(n) ==
    LET lo == n \div 10
        r  == n % 10
    IN  IF r < 5 THEN {lo}
        ELSE IF r > 5 THEN {lo + 1}
        ELSE {lo, lo + 1}

\* A plausible slip: a weight mistyped, so the weights no longer sum to 1.
weighted_sum_bad_weight(relevance, completeness, consistency, complexity) ==
    relevance * 5 + completeness * 3 + consistency * 2 + complexity * 1

\* relevance*0.4 + completeness*0.3 + consistency*0.2 + complexity*0.1,
\* in ten-thousandths.
weighted_sum(relevance, completeness, consistency, complexity) ==
    relevance * 4 + completeness * 3 + consistency * 2 + complexity * 1

\* The values calculate_confidence can return, in thousandths.
calculate_confidence(s) ==
    round3(weighted_sum(s.relevance, s.completeness, s.consistency, s.complexity))

\* _calculate_source_relevance: the mean similarity of the cited chunks;
\* with no chunk there is nothing to average and the score is 0.
source_relevance(nsources, score) == IF nsources = 0 THEN 0 ELSE score

\* _calculate_consistency: the lexical overlap of the answer with the
\* retrieved context; with no context the overlap is 0.
consistency(nsources, score) == IF nsources = 0 THEN 0 ELSE score

ConfInit ==
    /\ cf_sources \in 0..1
    /\ \E rel \in Scores, com \in Scores, con \in Scores, cpx \in Scores :
          cf_scores = [relevance    |-> source_relevance(cf_sources, rel),
                       completeness |-> com,
                       consistency  |-> consistency(cf_sources, con),
                       complexity   |-> cpx]
    /\ cf_conf = -1
    /\ cf_pc = "input"

CalculateConfidence ==
    /\ cf_pc = "input"
    /\ cf_conf' \in calculate_confidence(cf_scores)
    /\ cf_pc' = "done"
    /\ UNCHANGED <<cf_sources, cf_scores, chunkVars, serverVars, clientVars>>

Clamp01(x) == IF x < 0 THEN 0 ELSE IF x > One THEN One ELSE x

\* C5: the confidence returned is always within [0, 1] and is the
\* 0.4/0.3/0.2/0.1 weighted sum of the four component scores, rounded to 3
\* decimals and clamped.
C5_ConfidenceInRange ==
    cf_pc = "done" =>
        /\ 0 <= cf_conf /\ cf_conf <= One
        /\ \E v \in round3(cf_scores.relevance * 4 + cf_scores.completeness * 3
                           + cf_scores.consistency * 2 + cf_scores.complexity * 1) :
              cf_conf = Clamp01(v)

\* A confidence has been returned for scores whose weighted sum is not a
\* whole number of thousandths, so that the rounding acted; and the largest
\* confidence, 1.0, is returned for some input.
C5_Witness ==
    /\ cf_pc = "done"
    /\ cf_sources > 0
    /\ weighted_sum(cf_scores.relevance, cf_scores.completeness,
                    cf_scores.consistency, cf_scores.complexity) % 10 # 0
    /\ cf_conf > 0

\* The low-confidence threshold, 0.4.
LowConfidenceThreshold == (4 * One) \div 10

\* C6: whenever the retrieval result set is empty, the confidence returned
\* is strictly below the low-confidence threshold 0.4, whatever the
\* completeness and complexity-match scores are.
C6_EmptyRetrievalBelowThreshold ==
    (cf_pc = "done" /\ cf_sources = 0) => cf_conf < LowConfidenceThreshold

(***************************************************************************)
(* Backend.  A query string is kept as its runs of characters: each run    *)
(* is n whitespace characters or n other characters, so that len() and     *)
(* strip() are computed on strings of a thousand characters.               *)
(***************************************************************************)
QueryLimit == 1000

RunLens == {1, QueryLimit}
Runs == [ws : BOOLEAN, n : RunLens]

\* The queries: up to MaxRuns runs, whitespace and other characters in turn.
Queries ==
    {q \in SeqsUpTo(Runs, MaxRuns) :
        \A i \in 1..(Len(q) - 1) : q[i].ws # q[i + 1].ws}

\* len(query)
RECURSIVE query_len(_)
query_len(q) == IF q = <<>> THEN 0 ELSE Head(q).n + query_len(Tail(q))

\* query.strip()
RECURSIVE query_lstrip(_)
query_lstrip(q) == IF q # <<>> /\ Head(q).ws THEN query_lstrip(Tail(q)) ELSE q

RECURSIVE query_rstrip(_)
query_rstrip(q) ==
    IF q # <<>> /\ q[Len(q)].ws THEN query_rstrip(SubSeq(q, 1, Len(q) - 1)) ELSE q

query_strip(q) == query_lstrip(query_rstrip(q))

\* A plausible slip: the query is tested for emptiness without strip().
validate_query_unstripped(query) ==
    IF query = <<>> THEN FALSE
    ELSE IF query_len(query) > QueryLimit THEN FALSE
    ELSE TRUE

\* A plausible slip: the character limit is not tested.
validate_query_unlimited(query) ==
    IF query = <<>> \/ query_len(query_strip(query)) = 0 THEN FALSE ELSE TRUE

\* validate_query(query)
validate_query(query) ==
    IF query = <<>> \/ query_len(query_strip(query)) = 0 THEN FALSE
    ELSE IF query_len(query) > QueryLimit THEN FALSE
    ELSE TRUE

(***************************************************************************)
(* The vector store.  A chunk is its id; the index keeps the chunks in     *)
(* insertion order.                                                        *)
(***************************************************************************)
Chunks == 1..MaxChunks
Requests == 1..MaxRequests

\* MAX_RETRIEVAL_RESULTS, the default of k
TopK == 3

\* The corpora an ingestion can produce: the chunks of the documents found,
\* in processing order.
RECURSIVE SortedSeq(_)
SortedSeq(S) ==
    IF S = {} THEN <<>>
    ELSE LET m == CHOOSE x \in S : \A y \in S : x <= y
         IN  <<m>> \o SortedSeq(S \ {m})

Corpora == {SortedSeq(S) : S \in SUBSET Chunks}

\* The similarity of a chunk to the query (the store's distance, as a score).
Similarity(c) == (2 * c) % 3

\* The keyword overlap of the query with chunk c.
KeywordOverlap(c) == c % 2

\* A plausible slip: the first k chunks stored are returned.
top_k_first_stored(index, k) ==
    {{index[i] : i \in 1..(IF k < Len(index) THEN k ELSE Len(index))}}

\* The chunks collection.query(n_results = k) returns: k of them (all if
\* there are fewer), none less similar than a chunk left out.  Which of the
\* equally similar chunks at the cut are returned is the store's choice.
top_k(index, k) ==
    LET stored == {index[i] : i \in 1..Len(index)}
        n == IF k < Len(index) THEN k ELSE Len(index)
    IN  {S \in SUBSET stored :
            /\ Cardinality(S) = n
            /\ \A c \in S, d \in stored \ S : Similarity(d) <= Similarity(c)}

\* The orders collection.query can return them in: most similar first; the
\* HNSW index fixes no order among equally similar chunks.
query_orders(index, k) ==
    UNION {{raw \in [1..Cardinality(S) -> S] :
               /\ \A i, j \in DOMAIN raw : i # j => raw[i] # raw[j]
               /\ \A i, j \in DOMAIN raw :
                      i < j => Similarity(raw[i]) >= Similarity(raw[j])} :
           S \in top_k(index, k)}

Position(seq, c) == CHOOSE i \in 1..Len(seq) : seq[i] = c

\* Context ranking: semantic similarity first, keyword overlap second; the
\* further criteria are not modelled, chunks equal in both keep the order
\* the store returned them in.
ranks_before(raw, a, b) ==
    \/ Similarity(a) > Similarity(b)
    \/ /\ Similarity(a) = Similarity(b)
       /\ \/ KeywordOverlap(a) > KeywordOverlap(b)
          \/ /\ KeywordOverlap(a) = KeywordOverlap(b)
             /\ Position(raw, a) < Position(raw, b)

RECURSIVE rank_chunks(_, _)
rank_chunks(raw, picked) ==
    IF picked = {} THEN <<>>
    ELSE LET first == CHOOSE c \in picked :
                          \A d \in picked \ {c} : ranks_before(raw, c, d)
         IN  <<first>> \o rank_chunks(raw, picked \ {first})

context_ranking(raw) == rank_chunks(raw, {raw[i] : i \in 1..Len(raw)})

\* What a retrieval with k can give: the chunks of the similarity search,
\* ranked.
query_outcomes(index, k) == {context_ranking(raw) : raw \in query_orders(index, k)}

\* The retrieval of the API model, whose chunks all differ in similarity:
\* one set of chunks is nearest and its ranking is their similarity order.
nearest(index, k) == rank_chunks(index, CHOOSE S \in top_k(index, k) : TRUE)

\* search_documents(query_embedding, k): one collection.query call, with no
\* handler around it; an unreachable store raises.
search_documents(index, up, k) ==
    IF up THEN [raised |-> FALSE, results |-> nearest(index, k)]
    ELSE [raised |-> TRUE, results |-> <<>>]

\* retrieve_relevant_docs: the Retrieval Engine returns an empty result set
\* when the index is empty or unavailable, rather than raising.
retrieve_relevant_docs(index, up, k) ==
    LET found == search_documents(index, up, k)
    IN  IF found.raised THEN <<>> ELSE found.results

\* check_vector_store_health(): count() and a sample query, no handler
\* around them.  The sample query returns one list of documents per query
\* text, so sample_search['documents'] has one element.
check_vector_store_health(index, up) ==
    IF ~up THEN [raised |-> TRUE]
    ELSE LET collection_count == Len(index)
             sample_search == [documents |-> <<nearest(index, 1)>>]
         IN  [raised |-> FALSE,
              status |-> IF collection_count > 0 THEN "healthy" ELSE "empty",
              document_count |-> collection_count,
              search_functional |-> Len(sample_search.documents) > 0]

(***************************************************************************)
(* The completion service.                                                 *)
(***************************************************************************)
\* os.getenv('OPENROUTER_API_KEY'): None when the variable is not set.
None == "None"

Environment == {None, "key"}

Outcomes == {"ok", "timeout", "connection_error", "rate_limit", "other"}

\* handle_ai_errors(error): the message for a failed completion call.
handle_ai_errors(error) ==
    IF error = "timeout" THEN "AI service timeout - please try again"
    ELSE IF error = "connection_error"
         THEN "AI service unavailable - please check connection"
    ELSE IF error = "rate_limit"
         THEN "Rate limit exceeded - please wait before retrying"
    ELSE "AI service error"

\* A plausible slip: a retry loop around requests.post that also retries
\* a timeout.
call_ai_model_again_retrying(outcome, posts) ==
    outcome \in {"timeout", "connection_error"} /\ posts < 3

\* call_ai_model(messages) holds one requests.post and no loop: whatever the
\* outcome of the POST, no further POST is issued.
call_ai_model_again(outcome, posts) == FALSE

\* A plausible slip: an AI failure reported with the status of a bad request.
chat_status_code_swapped(kind) ==
    IF kind = "success" THEN 200
    ELSE IF kind = "invalid" THEN 500
    ELSE 400

\* POST /api/chat status codes: 200 successful response generation, 400
\* invalid request, 500 internal server error (AI API failure, etc.).
chat_status_code(kind) ==
    IF kind = "success" THEN 200
    ELSE IF kind = "invalid" THEN 400
    ELSE 500

\* POST /api/chat error responses: {"error": ..., "status": "error"}
chat_error_response(kind, message) ==
    [code |-> chat_status_code(kind), status |-> "error", error |-> message]

\* POST /api/chat response: the answer with its sources.
chat_success_response(results) ==
    [code |-> chat_status_code("success"), status |-> "success",
     answer |-> "answer", sources |-> results]

NoResponse == [code |-> 0]

NewRequest ==
    [pc |-> "new", query |-> <<>>, seen |-> <<>>, during |-> FALSE, up |-> TRUE,
     results |-> <<>>, posts |-> 0, outcomes |-> <<>>, response |-> NoResponse]

\* POST /api/chat arrives with query q: the query is validated; a valid
\* query is retrieved for, and the completion call is issued.
ChatStart(r, q) ==
    /\ sv_req[r].pc = "new"
    /\ IF ~validate_query(q)
       THEN sv_req' = [sv_req EXCEPT ![r] =
                [@ EXCEPT !.pc = "done", !.query = q,
                          !.response = chat_error_response("invalid", "Query cannot be empty")]]
       ELSE sv_req' = [sv_req EXCEPT ![r] =
                [@ EXCEPT !.pc = "calling", !.query = q,
                          !.seen = IF sv_storeUp THEN sv_index ELSE <<>>,
                          !.during = /\ sv_build.pc = "building"
                                     /\ sv_build.fresh # <<>>
                                     /\ sv_build.fresh # sv_build.target,
                          !.up = sv_storeUp,
                          !.results = retrieve_relevant_docs(sv_index, sv_storeUp, TopK),
                          !.posts = 1]]
    /\ UNCHANGED <<sv_index, sv_storeUp, sv_build, sv_complete, sv_status,
                   sv_config, queryVars, logVars, ingestVars, chunkVars, confVars, clientVars>>

\* The POST to the completion service ends with outcome: a reply, a timeout
\* after 30 s, or an error.  Without an API key the service gives no
\* completion.
ChatCompletion(r, outcome) ==
    /\ sv_req[r].pc = "calling"
    /\ outcome = "ok" => sv_config.api_key # None
    /\ LET req == sv_req[r]
           outs == Append(req.outcomes, outcome)
       IN  IF call_ai_model_again(outcome, req.posts)
           THEN sv_req' = [sv_req EXCEPT ![r] =
                    [@ EXCEPT !.outcomes = outs, !.posts = @ + 1]]
           ELSE sv_req' = [sv_req EXCEPT ![r] =
                    [@ EXCEPT !.pc = "done", !.outcomes = outs,
                              !.response =
                                  IF outcome = "ok"
                                  THEN chat_success_response(req.results)
                                  ELSE chat_error_response("ai_failure",
                                                           handle_ai_errors(outcome))]]
    /\ UNCHANGED <<sv_index, sv_storeUp, sv_build, sv_complete, sv_status,
                   sv_config, queryVars, logVars, ingestVars, chunkVars, confVars, clientVars>>

\* GET /api/status: 200 with the health of the vector store, 500 on a system
\* error.
Status ==
    /\ LET health == check_vector_store_health(sv_index, sv_storeUp)
       IN  sv_status' =
               IF health.raised
               THEN [code |-> 500, status |-> "error",
                     index |-> sv_index, up |-> sv_storeUp]
               ELSE [code |-> 200, status |-> "success",
                     vector_store_status |-> health.status,
                     total_documents |-> health.document_count,
                     openrouter_configured |-> sv_config.api_key # None,
                     index |-> sv_index, up |-> sv_storeUp]
    /\ UNCHANGED <<sv_index, sv_storeUp, sv_build, sv_complete, sv_req,
                   sv_config, queryVars, logVars, ingestVars, chunkVars, confVars, clientVars>>

\* The vector store becomes unreachable, or reachable again.
StoreFail ==
    /\ sv_storeUp
    /\ sv_build.pc = "idle"
    /\ sv_storeUp' = FALSE
    /\ UNCHANGED <<sv_index, sv_build, sv_complete, sv_req, sv_status,
                   sv_config, queryVars, logVars, ingestVars, chunkVars, confVars, clientVars>>

StoreRecover ==
    /\ ~sv_storeUp
    /\ sv_storeUp' = TRUE
    /\ UNCHANGED <<sv_index, sv_build, sv_complete, sv_req, sv_status,
                   sv_config, queryVars, logVars, ingestVars, chunkVars, confVars, clientVars>>

(***************************************************************************)
(* POST /api/admin/reload: the documents are processed again and the       *)
(* vector store is rebuilt.  The rebuild fills a fresh structure and swaps *)
(* it in when it is complete.                                              *)
(***************************************************************************)
NoBuild == [pc |-> "idle", target |-> <<>>, fresh |-> <<>>]

\* A plausible slip: the rebuild clears and refills the collection in place.
rebuild_visible_in_place(active, fresh) == fresh

\* What a query reads while a rebuild fills the fresh structure: the index
\* that was active when the rebuild began.
rebuild_visible(active, fresh) == active

ReloadStart(corpus) ==
    /\ sv_build.pc = "idle"
    /\ sv_storeUp
    /\ sv_build' = [pc |-> "building", target |-> corpus, fresh |-> <<>>]
    /\ sv_index' = rebuild_visible(sv_index, <<>>)
    /\ UNCHANGED <<sv_storeUp, sv_complete, sv_req, sv_status,
                   sv_config, queryVars, logVars, ingestVars, chunkVars, confVars, clientVars>>

ReloadAdd ==
    /\ sv_build.pc = "building"
    /\ Len(sv_build.fresh) < Len(sv_build.target)
    /\ LET fresh == Append(sv_build.fresh, sv_build.target[Len(sv_build.fresh) + 1])
       IN  /\ sv_build' = [sv_build EXCEPT !.fresh = fresh]
           /\ sv_index' = rebuild_visible(sv_index, fresh)
    /\ UNCHANGED <<sv_storeUp, sv_complete, sv_req, sv_status,
                   sv_config, queryVars, logVars, ingestVars, chunkVars, confVars, clientVars>>

ReloadSwap ==
    /\ sv_build.pc = "building"
    /\ sv_build.fresh = sv_build.target
    /\ sv_index' = sv_build.fresh
    /\ sv_complete' = sv_build.fresh
    /\ sv_build' = NoBuild
    /\ UNCHANGED <<sv_storeUp, sv_req, sv_status,
                   sv_config, queryVars, logVars, ingestVars, chunkVars, confVars, clientVars>>

\* No retrieval is looked at.
QueryIdle ==
    /\ qr_index = <<>> /\ qr_k = 0 /\ qr_raw = <<>> /\ qr_results = <<>> /\ qr_sources = <<>>
    /\ qr_pc = "idle"

\* No request logs a record.
LogIdle ==
    /\ lg_interactions = <<>>
    /\ lg_feedback = <<>>
    /\ lg_writers = <<>>

\* No folder is being processed.
IngestIdle ==
    /\ in_docs = <<>> /\ in_i = 1 /\ in_chunks = <<>> /\ in_failures = <<>>
    /\ in_pc = "idle"

ServerInit ==
    /\ sv_config \in [api_key : Environment]
    /\ QueryIdle
    /\ LogIdle
    /\ IngestIdle
    /\ sv_index \in Corpora
    /\ sv_complete = sv_index
    /\ sv_storeUp = TRUE
    /\ sv_build = NoBuild
    /\ sv_req = [r \in Requests |-> NewRequest]
    /\ sv_status = [code |-> 0]

ApiIdle ==
    /\ sv_config = [api_key |-> None]
    /\ sv_index = <<>>
    /\ sv_complete = <<>>
    /\ sv_storeUp = TRUE
    /\ sv_build = NoBuild
    /\ sv_req = [r \in {} |-> NewRequest]
    /\ sv_status = [code |-> 0]

ServerIdle == ApiIdle /\ QueryIdle /\ LogIdle /\ IngestIdle

\* The query of the requests that run beside a reload: one valid query.
PlainQuery == <<[ws |-> FALSE, n |-> 1]>>

(***************************************************************************)
(* Properties of the backend.                                              *)
(***************************************************************************)
\* The query is empty or holds whitespace only.
IsBlank(q) == \A i \in 1..Len(q) : q[i].ws

Answered(r) == sv_req[r].pc = "done"

\* C1: a /chat request whose query is empty, whitespace only or longer than
\* 1000 characters is answered with a 400 validation error, and no call to
\* the completion service is made for it.
C1_InvalidQueryRejected ==
    \A r \in Requests :
        (/\ sv_req[r].pc # "new"
         /\ (IsBlank(sv_req[r].query) \/ query_len(sv_req[r].query) > QueryLimit)) =>
            /\ sv_req[r].pc = "done"
            /\ sv_req[r].response.code = 400
            /\ sv_req[r].response.status = "error"
            /\ sv_req[r].posts = 0

\* A query of 1001 characters, not blank, has been answered.
C1_Witness ==
    \E r \in Requests :
        /\ Answered(r)
        /\ ~IsBlank(sv_req[r].query)
        /\ query_len(sv_req[r].query) = QueryLimit + 1

\* C3: when the call to the completion service times out, /chat returns a
\* normal (non-5xx) response that carries the fallback answer with
\* confidence exactly 0.0.
C3_TimeoutGivesFallbackAnswer ==
    \A r \in Requests :
        (/\ Answered(r)
         /\ sv_req[r].outcomes # <<>>
         /\ sv_req[r].outcomes[Len(sv_req[r].outcomes)] = "timeout") =>
            /\ sv_req[r].response.code < 500
            /\ sv_req[r].response.status = "success"
            /\ "confidence" \in DOMAIN sv_req[r].response
            /\ sv_req[r].response.confidence = 0

\* C4: within one chat request the completion call is issued at most twice,
\* a second call happens only after a connection error of the first, and no
\* call is issued after a call that timed out.
C4_NoRetryOnTimeout ==
    \A r \in Requests :
        /\ sv_req[r].posts <= 2
        /\ sv_req[r].posts = 2 =>
              (sv_req[r].outcomes # <<>> /\ sv_req[r].outcomes[1] = "connection_error")
        /\ \A i \in 1..Len(sv_req[r].outcomes) :
              sv_req[r].outcomes[i] = "timeout" => sv_req[r].posts = i

\* A request whose completion call timed out has been answered.
C4_Witness ==
    \E r \in Requests :
        /\ Answered(r)
        /\ sv_req[r].outcomes = <<"timeout">>
        /\ sv_req[r].posts = 1

\* C7: with an empty or unavailable index, retrieval returns an empty result
\* set, /status reports total_documents 0, and every valid /chat query gets a
\* success response with an empty sources list, never an error response.
C7_EmptyIndexDegrades ==
    /\ \A r \in Requests :
          (/\ sv_req[r].posts > 0
           /\ (sv_req[r].seen = <<>> \/ ~sv_req[r].up)) =>
              /\ sv_req[r].results = <<>>
              /\ Answered(r) =>
                    /\ sv_req[r].response.code = 200
                    /\ sv_req[r].response.status = "success"
                    /\ sv_req[r].response.sources = <<>>
    /\ (sv_status.code # 0 /\ (sv_status.index = <<>> \/ ~sv_status.up)) =>
          /\ sv_status.code = 200
          /\ sv_status.total_documents = 0

\* C14: a backend started without the completion API key refuses to serve:
\* it answers no /api/chat and no /api/status request.
C14_NoServiceWithoutKey ==
    sv_config.api_key = None =>
        /\ sv_status = [code |-> 0]
        /\ \A r \in DOMAIN sv_req : sv_req[r].response = NoResponse

\* C8: a query that runs beside an index rebuild never reads a partially
\* updated index: what it reads is the whole chunk set from before the
\* rebuild or the whole chunk set the rebuild produces, and its results are
\* computed from that set.
C8_NoPartialIndex ==
    [][\A r \in Requests :
          (sv_req[r].pc = "new" /\ sv_req'[r].pc = "calling") =>
              /\ sv_req'[r].seen \in
                    {sv_complete,
                     IF sv_build.pc = "building" THEN sv_build.target ELSE sv_complete}
              /\ sv_req'[r].results = nearest(sv_req'[r].seen, TopK)]_vars

\* A query has read the index while a rebuild had stored some but not all of
\* its chunks, and has been answered with sources.
C8_Witness ==
    \E r \in Requests :
        /\ Answered(r)
        /\ sv_req[r].during
        /\ sv_req[r].response.code = 200
        /\ sv_req[r].response.sources # <<>>

(***************************************************************************)
(* The interaction and feedback logs: line-delimited files, one            *)
(* self-contained record per line.  A request that has produced its record *)
(* opens the log and then writes the line; requests run concurrently.      *)
(***************************************************************************)
Writers == 1..MaxWriters

LogNames == {"interactions", "feedback"}

\* The record request w logs: a QueryRecord or a FeedbackRecord with its id.
log_record(w, log) == [id |-> w, log |-> log]

\* A plausible slip: the file is read, the record added, and the file
\* written back.
log_write_read_modify_write(lines, seen, record) == Append(seen, record)

\* The write of one record: the line is appended to the file as it is now,
\* whatever the file held when the request opened it.
log_write(lines, seen, record) == Append(lines, record)

LogInit ==
    /\ lg_interactions = <<>>
    /\ lg_feedback = <<>>
    /\ lg_writers = [w \in Writers |-> [pc |-> "new", log |-> "none", seen |-> <<>>]]

LogLines(log) == IF log = "interactions" THEN lg_interactions ELSE lg_feedback

\* Request w (a chat request for the interaction log, a feedback request for
\* the feedback log) has its record and opens the log.
LogOpen(w, log) ==
    /\ lg_writers[w].pc = "new"
    /\ lg_writers' = [lg_writers EXCEPT ![w] =
                         [pc |-> "open", log |-> log, seen |-> LogLines(log)]]
    /\ UNCHANGED <<lg_interactions, lg_feedback, sv_index, sv_storeUp, sv_build,
                   sv_complete, sv_req, sv_status, sv_config, queryVars, ingestVars,
                   chunkVars, confVars, clientVars>>

\* Request w writes its line.
LogWrite(w) ==
    /\ lg_writers[w].pc = "open"
    /\ LET me == lg_writers[w]
           lines == log_write(LogLines(me.log), me.seen, log_record(w, me.log))
       IN  IF me.log = "interactions"
           THEN lg_interactions' = lines /\ UNCHANGED lg_feedback
           ELSE lg_feedback' = lines /\ UNCHANGED lg_interactions
    /\ lg_writers' = [lg_writers EXCEPT ![w].pc = "done"]
    /\ UNCHANGED <<sv_index, sv_storeUp, sv_build, sv_complete, sv_req, sv_status,
                   sv_config, queryVars, ingestVars, chunkVars, confVars, clientVars>>

\* How many lines of a log hold the record.
Occurrences(lines, record) == Cardinality({i \in 1..Len(lines) : lines[i] = record})

IsPrefix(s, t) == Len(s) <= Len(t) /\ SubSeq(t, 1, Len(s)) = s

\* C12: under any interleaving of the requests that log, every record
\* produced is in its log exactly once (and a record not yet written in
\* none), and no line already in a log is changed or removed.
C12_LogsAppendOnly ==
    /\ [](\A w \in Writers, log \in LogNames :
             Occurrences(LogLines(log), log_record(w, log)) =
                 IF lg_writers[w].pc = "done" /\ lg_writers[w].log = log THEN 1 ELSE 0)
    /\ [][/\ IsPrefix(lg_interactions, lg_interactions')
          /\ IsPrefix(lg_feedback, lg_feedback')]_vars

\* Two requests wrote to the same log, the later writer having opened the
\* log before the earlier one wrote; a third record is in the other log.
C12_Witness ==
    /\ \A w \in Writers : lg_writers[w].pc = "done"
    /\ lg_interactions # <<>> /\ lg_feedback # <<>>
    /\ \E a, b \in Writers :
          /\ a # b
          /\ lg_writers[a].log = lg_writers[b].log
          /\ LET lines == LogLines(lg_writers[a].log)
                 ia == CHOOSE i \in 1..Len(lines) : lines[i].id = a
                 ib == CHOOSE i \in 1..Len(lines) : lines[i].id = b
             IN  ia < ib /\ Len(lg_writers[b].seen) < ia

(***************************************************************************)
(* Document ingestion: process_pdf_folder extracts and chunks every PDF    *)
(* of the folder.  A chunk is the pair of its document and its number.     *)
(***************************************************************************)
Docs == 1..MaxDocs

\* The folders processed: each file is readable or not, and a readable one
\* gives some chunks.
Folders == [Docs -> [readable : BOOLEAN, nchunks : 1..MaxDocChunks]]

\* A plausible slip: a file that cannot be read gives an empty text.
extract_text_from_pdf_swallowing(file) ==
    [raised |-> FALSE, nchunks |-> IF file.readable THEN file.nchunks ELSE 0]

\* extract_text_from_pdf(pdf_path): open() and PyPDF2.PdfReader raise on a
\* file that cannot be read; there is no handler in the function.
extract_text_from_pdf(file) ==
    IF file.readable THEN [raised |-> FALSE, nchunks |-> file.nchunks]
    ELSE [raised |-> TRUE, nchunks |-> 0]

\* The chunks chunk_text makes of the text of document d.
document_chunks(d, text) == [k \in 1..text.nchunks |-> <<d, k>>]

IngestInit ==
    /\ in_docs \in Folders
    /\ in_i = 1
    /\ in_chunks = <<>>
    /\ in_failures = <<>>
    /\ in_pc = "loop"

\* One turn of the loop of process_pdf_folder: the file is extracted and
\* chunked; a file that raises is recorded as a failure and skipped.
IngestStep ==
    /\ in_pc = "loop"
    /\ in_i <= Len(in_docs)
    /\ LET text == extract_text_from_pdf(in_docs[in_i])
       IN  IF text.raised
           THEN /\ in_failures' = Append(in_failures, in_i)
                /\ UNCHANGED in_chunks
           ELSE /\ in_chunks' = in_chunks \o document_chunks(in_i, text)
                /\ UNCHANGED in_failures
    /\ in_i' = in_i + 1
    /\ UNCHANGED <<in_docs, in_pc, sv_index, sv_storeUp, sv_build, sv_complete,
                   sv_req, sv_status, sv_config, queryVars, logVars, chunkVars, confVars,
                   clientVars>>

\* The loop is over: process_pdf_folder returns the chunks.
IngestReturn ==
    /\ in_pc = "loop"
    /\ in_i > Len(in_docs)
    /\ in_pc' = "done"
    /\ UNCHANGED <<in_docs, in_i, in_chunks, in_failures, sv_index, sv_storeUp,
                   sv_build, sv_complete, sv_req, sv_status, sv_config, queryVars, logVars,
                   chunkVars, confVars, clientVars>>

Range(f) == {f[i] : i \in DOMAIN f}

QueryChunks == 1..MaxQueryChunks

\* The collections: chunks in the order they were added, none twice.
QueryIndexes ==
    {index \in SeqsUpTo(QueryChunks, MaxQueryChunks) :
        \A i, j \in DOMAIN index : i # j => index[i] # index[j]}

\* The metadata of chunk c: two chunks to a document, the second page
\* beginning at the fourth chunk.
document_of(c) == (c + 1) \div 2
page_of(c) == 1 + (c \div 4)

source_of(c) == [document |-> document_of(c), page |-> page_of(c), content |-> c]

pair_of(source) == <<source.document, source.page>>

\* A plausible slip: one source per retrieved chunk.
format_sources_per_chunk(results) ==
    [i \in 1..Len(results) |-> source_of(results[i])]

\* The sources of an answer: the (document, page) pairs of the retrieved
\* chunks in rank order, each once, with the content of the first chunk
\* that has the pair.
RECURSIVE format_sources(_)
format_sources(results) ==
    IF results = <<>> THEN <<>>
    ELSE LET n == Len(results)
             before == format_sources(SubSeq(results, 1, n - 1))
             last == source_of(results[n])
         IN  IF pair_of(last) \in {pair_of(before[i]) : i \in 1..Len(before)}
             THEN before
             ELSE Append(before, last)

QueryInit ==
    /\ qr_index \in QueryIndexes
    /\ qr_k \in 1..MaxK
    /\ qr_raw = <<>>
    /\ qr_results = <<>>
    /\ qr_sources = <<>>
    /\ qr_pc = "input"

\* search_documents: the collection.query call.
Search ==
    /\ qr_pc = "input"
    /\ qr_raw' \in query_orders(qr_index, qr_k)
    /\ qr_pc' = "searched"
    /\ UNCHANGED <<qr_index, qr_k, qr_results, qr_sources>>
    /\ UNCHANGED <<sv_index, sv_storeUp, sv_build, sv_complete, sv_req, sv_status,
                   sv_config, logVars, ingestVars, chunkVars, confVars, clientVars>>

\* The context ranking of what the search returned.
Rank ==
    /\ qr_pc = "searched"
    /\ qr_results' = context_ranking(qr_raw)
    /\ qr_pc' = "ranked"
    /\ UNCHANGED <<qr_index, qr_k, qr_raw, qr_sources>>
    /\ UNCHANGED <<sv_index, sv_storeUp, sv_build, sv_complete, sv_req, sv_status,
                   sv_config, logVars, ingestVars, chunkVars, confVars, clientVars>>

\* The response is built: its sources come from the ranked chunks.
FormatSources ==
    /\ qr_pc = "ranked"
    /\ qr_sources' = format_sources(qr_results)
    /\ qr_pc' = "done"
    /\ UNCHANGED <<qr_index, qr_k, qr_raw, qr_results>>
    /\ UNCHANGED <<sv_index, sv_storeUp, sv_build, sv_complete, sv_req, sv_status,
                   sv_config, logVars, ingestVars, chunkVars, confVars, clientVars>>

\* results holds min(k, stored) distinct stored chunks, most similar first,
\* and no chunk left out is more similar than one returned.
MostSimilarFirst(index, k, results) ==
    /\ Len(results) <= k
    /\ Len(results) = (IF k < Len(index) THEN k ELSE Len(index))
    /\ Range(results) \subseteq Range(index)
    /\ \A i, j \in DOMAIN results : i # j => results[i] # results[j]
    /\ \A i, j \in DOMAIN results :
           i < j => Similarity(results[i]) >= Similarity(results[j])
    /\ \A c \in Range(index) \ Range(results), d \in Range(results) :
           Similarity(c) <= Similarity(d)

\* Equally similar results stand in the order their chunks were added.
TiesInInsertionOrder(index, results) ==
    \A i, j \in DOMAIN results :
        (i < j /\ Similarity(results[i]) = Similarity(results[j]))
            => Position(index, results[i]) < Position(index, results[j])

\* C22 as stated: a query returns at most k results, most similar first,
\* holding the k most similar stored chunks, and results of equal similarity
\* are in the order their chunks were inserted.  Refuted: the ranking puts
\* the chunk with the higher keyword overlap first.
C22_TiesInInsertionOrder ==
    /\ qr_pc \in {"searched", "ranked", "done"} =>
           /\ MostSimilarFirst(qr_index, qr_k, qr_raw)
           /\ TiesInInsertionOrder(qr_index, qr_raw)
    /\ qr_pc \in {"ranked", "done"} =>
           /\ MostSimilarFirst(qr_index, qr_k, qr_results)
           /\ TiesInInsertionOrder(qr_index, qr_results)

\* C22, amended: a query returns at most k results, most similar first,
\* holding the k most similar stored chunks; nothing is promised about the
\* order of results of equal similarity.
C22_MostSimilarFirst ==
    /\ qr_pc \in {"searched", "ranked", "done"} =>
           MostSimilarFirst(qr_index, qr_k, qr_raw)
    /\ qr_pc \in {"ranked", "done"} =>
           MostSimilarFirst(qr_index, qr_k, qr_results)

\* A collection larger than k was queried and two of the results are
\* equally similar.
C22_Witness ==
    /\ qr_pc = "done"
    /\ Len(qr_index) > qr_k
    /\ \E i, j \in DOMAIN qr_results :
           i < j /\ Similarity(qr_results[i]) = Similarity(qr_results[j])

\* The rank of the first retrieved chunk with the pair.
FirstRank(results, pair) ==
    CHOOSE i \in DOMAIN results :
        /\ pair_of(source_of(results[i])) = pair
        /\ \A j \in 1..(i - 1) : pair_of(source_of(results[j])) # pair

\* C23: the sources hold each (document, page) pair of the retrieved chunks
\* exactly once, in the order of the first retrieved chunk with the pair,
\* and no pair that comes from no retrieved chunk.
C23_SourcesDistinctInRankOrder ==
    qr_pc = "done" =>
        /\ \A i, j \in DOMAIN qr_sources :
               i # j => pair_of(qr_sources[i]) # pair_of(qr_sources[j])
        /\ {pair_of(qr_sources[i]) : i \in DOMAIN qr_sources}
               = {pair_of(source_of(c)) : c \in Range(qr_results)}
        /\ \A i, j \in DOMAIN qr_sources :
               i < j => FirstRank(qr_results, pair_of(qr_sources[i]))
                            < FirstRank(qr_results, pair_of(qr_sources[j]))

\* Two of the retrieved chunks share their page and another does not.
C23_Witness ==
    /\ qr_pc = "done"
    /\ Len(qr_sources) >= 2
    /\ Len(qr_sources) < Len(qr_results)

(***************************************************************************)
(* Front end: the chat page.  handleSendMessage runs up to its await when   *)
(* a message is submitted, and from the await to its end when the request  *)
(* settles.  The handlers read isLoading and apiAvailable as of the last   *)
(* render.                                                                 *)
(***************************************************************************)
Sends == 1..MaxSends

\* The texts submitted: empty, blank, a word, a word between spaces.
Texts == {<<>>, <<Space>>, <<1>>, <<Space, 1, Space>>}

\* How the POST to /api/chat ends: a 2xx body with status success and data,
\* a 2xx body with status error, an HTTP error with or without a body, no
\* response at all, or no response within the 30 s timeout.
Transports ==
    {"success_data", "error_value", "http_error_body", "http_error_text",
     "http_error_nobody", "network_error", "timeout"}

\* The HTTP errors that carry a response body: the API's JSON error
\* response, or a text that is no ChatResponse (status undefined).
HttpErrorBodies == {"http_error_body", "http_error_text"}

\* A plausible slip: every HTTP error is thrown.
sendChatMessage_throwing_errors(transport) ==
    IF transport = "success_data"
    THEN [thrown |-> FALSE, status |-> "success", data |-> TRUE]
    ELSE IF transport = "error_value"
    THEN [thrown |-> FALSE, status |-> "error", data |-> FALSE]
    ELSE [thrown |-> TRUE, status |-> "none", data |-> FALSE]

\* ApiService.sendChatMessage: response.data, or the body of an HTTP error,
\* is returned; anything else throws.
sendChatMessage(transport) ==
    IF transport = "success_data"
    THEN [thrown |-> FALSE, status |-> "success", data |-> TRUE]
    ELSE IF transport \in {"error_value", "http_error_body"}
    THEN [thrown |-> FALSE, status |-> "error", data |-> FALSE]
    ELSE IF transport = "http_error_text"
    THEN [thrown |-> FALSE, status |-> "undefined", data |-> FALSE]
    ELSE [thrown |-> TRUE, status |-> "none", data |-> FALSE]

\* response.data of a successful response, as far as the page shows it.
ResponseData == [confidence |-> 1, sources |-> <<"source">>, links |-> <<"link">>]

\* What the loading message and the error messages carry instead.
NoData == [confidence |-> 0, sources |-> <<>>, links |-> <<>>]

\* prev.filter((msg) => msg.id !== loadingMessageId)
RECURSIVE filter_id(_, _)
filter_id(prev, id) ==
    IF prev = <<>> THEN <<>>
    ELSE IF Head(prev).id # id THEN <<Head(prev)>> \o filter_id(Tail(prev), id)
    ELSE filter_id(Tail(prev), id)

\* A plausible slip: the catch branch adds its message without removing the
\* loading message.
settle_messages_catch_keeps(prev, loadingMessageId, n, query, result, now) ==
    LET kind == IF result.thrown THEN "connect_error"
                ELSE IF result.status = "success" /\ result.data THEN "answer"
                ELSE "error"
        shown == IF kind = "answer" THEN ResponseData ELSE NoData
        added == [id |-> now, req |-> n, query |-> query, kind |-> kind,
                  isLoading |-> FALSE, confidence |-> shown.confidence,
                  sources |-> shown.sources, links |-> shown.links]
    IN  IF result.thrown THEN Append(prev, added)
        ELSE Append(filter_id(prev, loadingMessageId), added)

\* The setMessages updaters of handleSendMessage after the await: the
\* loading message is removed and the answer, the error message of an error
\* response, or the connection error message is added.
settle_messages(prev, loadingMessageId, n, query, result, now) ==
    LET kind == IF result.thrown THEN "connect_error"
                ELSE IF result.status = "success" /\ result.data THEN "answer"
                ELSE "error"
        shown == IF kind = "answer" THEN ResponseData ELSE NoData
        added == [id |-> now, req |-> n, query |-> query, kind |-> kind,
                  isLoading |-> FALSE, confidence |-> shown.confidence,
                  sources |-> shown.sources, links |-> shown.links]
    IN  Append(filter_id(prev, loadingMessageId), added)

\* generateSessionId(): session_${Date.now()}_${Math.random()...}
generateSessionId(now, random) == <<now, random>>

\* A plausible slip: a session id is generated for every message sent.
chat_message_new_session(query, sessionId, now) ==
    [query |-> query, session_id |-> generateSessionId(now, 0)]

\* The ChatMessage handleSendMessage hands to sendChatMessage.
chat_message(query, sessionId, now) == [query |-> query, session_id |-> sessionId]

UnsentRequest ==
    [state |-> "unsent", id |-> 0, query |-> <<>>, session_id |-> <<>>, posts |-> 0,
     outcome |-> "none", checked |-> FALSE, transport |-> "none"]

ClientInit ==
    /\ ui_messages = <<>>
    /\ ui_isLoading = FALSE
    /\ ui_apiAvailable = TRUE
    /\ ui_render = [isLoading |-> FALSE, apiAvailable |-> TRUE]
    /\ ui_reqs = [n \in Sends |-> UnsentRequest]
    /\ ui_health = "pending"
    /\ ui_now = 0
    /\ ui_sessionId \in {generateSessionId(ui_now, random) : random \in 1..MaxRandom}

\* No Message component is shown.
FeedbackIdle ==
    /\ fb_response = [query_id |-> 0]
    /\ fb_props = [query |-> <<>>]
    /\ fb_feedback = "null"
    /\ fb_feedbackSent = FALSE
    /\ fb_showForm = FALSE
    /\ fb_comment = <<>>
    /\ fb_render = [feedbackSent |-> FALSE]
    /\ fb_posts = <<>>
    /\ fb_timers = 0

\* No chat input is shown.
InputIdle ==
    /\ ci_message = <<>>
    /\ ci_props = [isLoading |-> FALSE, disabled |-> FALSE]
    /\ ci_submits = 0
    /\ ci_calls = 0
    /\ ci_last = <<>>

\* No answer's confidence is shown.
DisplayIdle ==
    /\ cd_confidence = 0 /\ cd_label = "" /\ cd_color = "" /\ cd_pc = "idle"

PageIdle ==
    /\ ui_messages = <<>>
    /\ ui_isLoading = FALSE
    /\ ui_apiAvailable = TRUE
    /\ ui_render = [isLoading |-> FALSE, apiAvailable |-> TRUE]
    /\ ui_reqs = [n \in {} |-> UnsentRequest]
    /\ ui_health = "idle"
    /\ ui_now = 0
    /\ ui_sessionId = <<>>

\* No status indicator is shown.
StatusIdle ==
    /\ st_status = "null" /\ st_isLoading = FALSE /\ st_error = "null"
    /\ st_checks = <<>>

ClientIdle == PageIdle /\ FeedbackIdle /\ InputIdle /\ DisplayIdle /\ StatusIdle

\* The clock advances.
Tick ==
    /\ ui_now < MaxTime
    /\ ui_now' = ui_now + 1
    /\ UNCHANGED <<ui_messages, ui_isLoading, ui_apiAvailable, ui_render, ui_reqs,
                   ui_health, ui_sessionId, feedbackVars, inputVars, displayVars, statusVars,
                   chunkVars, confVars, serverVars>>

\* React renders the page: the handlers now read the current state.
Render ==
    /\ ui_render # [isLoading |-> ui_isLoading, apiAvailable |-> ui_apiAvailable]
    /\ ui_render' = [isLoading |-> ui_isLoading, apiAvailable |-> ui_apiAvailable]
    /\ UNCHANGED <<ui_messages, ui_isLoading, ui_apiAvailable, ui_reqs, ui_health,
                   ui_now, ui_sessionId, feedbackVars, inputVars, displayVars, statusVars,
                   chunkVars, confVars, serverVars>>

\* checkApiAvailability: the health check started on mount settles.
CheckApiAvailability(available) ==
    /\ ui_health = "pending"
    /\ ui_health' = "done"
    /\ ui_apiAvailable' = available
    /\ UNCHANGED <<ui_messages, ui_isLoading, ui_render, ui_reqs, ui_now,
                   ui_sessionId, feedbackVars, inputVars, displayVars, statusVars,
                   chunkVars, confVars, serverVars>>

\* The next call of handleSendMessage that issues a request.
NextSend == CHOOSE n \in Sends : ui_reqs[n].state = "unsent" /\
                \A m \in Sends : ui_reqs[m].state = "unsent" => n <= m

\* A plausible slip: the state set in the handler is rendered some time
\* later, and events in between see the earlier render.
rendered_later(isLoading, apiAvailable, previous) == previous

\* What the components show once an event handler that set isLoading has
\* returned: React commits the state set during an event before it
\* dispatches the next one.
rendered(isLoading, apiAvailable, previous) ==
    [isLoading |-> isLoading, apiAvailable |-> apiAvailable]

\* The chat input submits text: ChatInput.handleSubmit trims it and, unless
\* it is empty or the input is loading or disabled, calls handleSendMessage,
\* which adds the loading message, sets isLoading and sends the request.
\* The submit is an event React handles: the state set before the await is
\* rendered when the handler returns, before any other event.
HandleSendMessage(text) ==
    LET trimmedMessage == strip(text) IN
    /\ \E n \in Sends : ui_reqs[n].state = "unsent"
    /\ ~(trimmedMessage = <<>> \/ ui_render.isLoading \/ ~ui_render.apiAvailable)
    /\ ~(strip(trimmedMessage) = <<>> \/ ui_render.isLoading)
    /\ ui_messages' = Append(ui_messages,
                             [id |-> ui_now, req |-> NextSend, query |-> trimmedMessage,
                              kind |-> "loading", isLoading |-> TRUE,
                              confidence |-> NoData.confidence,
                              sources |-> NoData.sources, links |-> NoData.links])
    /\ ui_isLoading' = TRUE
    /\ LET message == chat_message(trimmedMessage, ui_sessionId, ui_now)
       IN  ui_reqs' = [ui_reqs EXCEPT ![NextSend] =
                          [state |-> "inflight", id |-> ui_now, query |-> message.query,
                           session_id |-> message.session_id, posts |-> 1,
                           outcome |-> "none", checked |-> FALSE,
                           transport |-> "none"]]
    /\ ui_render' = rendered(TRUE, ui_apiAvailable, ui_render)
    /\ UNCHANGED <<ui_apiAvailable, ui_health, ui_now, ui_sessionId,
                   feedbackVars, inputVars, displayVars, statusVars,
                   chunkVars, confVars, serverVars>>

\* A plausible slip: the catch branch leaves apiAvailable alone.
available_after_kept(result, apiAvailable) == apiAvailable

\* setApiAvailable(false) in the catch branch, and nowhere else in
\* handleSendMessage.
available_after(result, apiAvailable) == IF result.thrown THEN FALSE ELSE apiAvailable

\* How the await of sendChatMessage ended: it threw, or returned a response
\* with this status.
outcome_of(result) == IF result.thrown THEN "thrown" ELSE result.status

\* The request of call n settles: handleSendMessage resumes after its await,
\* replaces the loading message, and in its finally clears isLoading.
SettleSendMessage(n, transport) ==
    /\ ui_reqs[n].state = "inflight"
    /\ LET result == sendChatMessage(transport)
       IN  /\ ui_messages' = settle_messages(ui_messages, ui_reqs[n].id, n,
                                             ui_reqs[n].query, result, ui_now)
           /\ ui_apiAvailable' = available_after(result, ui_apiAvailable)
           /\ ui_reqs' = [ui_reqs EXCEPT ![n].state = "done",
                                         ![n].outcome = outcome_of(result),
                                         ![n].checked = (ui_health = "done"),
                                         ![n].transport = transport]
    /\ ui_isLoading' = FALSE
    /\ UNCHANGED <<ui_render, ui_health, ui_now, ui_sessionId, feedbackVars, inputVars,
                   displayVars, statusVars,
                   chunkVars, confVars, serverVars>>

(***************************************************************************)
(* Properties of the chat page.                                            *)
(***************************************************************************)
InFlight(n) == ui_reqs[n].state = "inflight"

LoadingMessages == {i \in 1..Len(ui_messages) : ui_messages[i].isLoading}

\* C24: at any time at most one chat request is in flight and the message
\* list holds at most one loading placeholder; handleSendMessage starts no
\* request while an earlier one has not completed.
C24_OneRequestInFlight ==
    /\ Cardinality({n \in Sends : InFlight(n)}) <= 1
    /\ Cardinality(LoadingMessages) <= 1
    /\ (\E n \in Sends : InFlight(n)) => ui_render.isLoading

\* A second request is in flight after the first one completed.
C24_Witness ==
    /\ \E n \in Sends : InFlight(n)
    /\ \E n \in Sends : ui_reqs[n].state = "done"
    /\ Cardinality(LoadingMessages) = 1

\* C2: every chat request the client sends obtains an outcome: its loading
\* placeholder is replaced by exactly one answer or error message and
\* isLoading returns to false, whether the server answers, answers with an
\* error, or does not answer within the client's timeout.
C2_ClientNeverHangs ==
    /\ \A n \in Sends : InFlight(n) ~> (ui_reqs[n].state = "done")
    /\ []((\A n \in Sends : ~InFlight(n)) =>
              (~ui_isLoading /\ LoadingMessages = {}))
    /\ [][\A n \in Sends :
             (InFlight(n) /\ ui_reqs'[n].state = "done") =>
                 /\ \A i \in 1..Len(ui_messages') : ui_messages'[i].id # ui_reqs[n].id
                                                    \/ ~ui_messages'[i].isLoading
                 /\ Cardinality({i \in 1..Len(ui_messages') :
                        ui_messages'[i].req = n /\ ~ui_messages'[i].isLoading}) = 1
                 /\ Cardinality({i \in 1..Len(ui_messages') :
                        ui_messages'[i].req = n /\ ui_messages'[i].isLoading}) = 0]_vars

\* A request that got no response (the timeout) has been settled with the
\* connection error message, and another with an answer.
C2_Witness ==
    /\ \A n \in Sends : ui_reqs[n].state = "done"
    /\ \E i \in 1..Len(ui_messages) : ui_messages[i].kind = "connect_error"
    /\ \E i \in 1..Len(ui_messages) : ui_messages[i].kind = "answer"
    /\ ~ui_isLoading

\* The answers and error messages of the list, in their order.
Settled(messages) == SelectSeq(messages, LAMBDA msg : ~msg.isLoading)

\* C17: an answer or error message once in the list stays there, in the
\* same relative order, through every later send and completion; completing
\* a request removes no loading message but that request's own.
C17_MessagesRemain ==
    [][/\ IsPrefix(Settled(ui_messages), Settled(ui_messages'))
       /\ \A i \in 1..Len(ui_messages) :
             (ui_messages[i].isLoading /\ ui_reqs'[ui_messages[i].req].state = "inflight")
                 => \E j \in 1..Len(ui_messages') : ui_messages'[j] = ui_messages[i]]_vars

\* C18: every chat request of the page carries the session id generated
\* when the page mounted, and that id never changes.
C18_OneSessionId ==
    /\ [](\A n \in DOMAIN ui_reqs :
             ui_reqs[n].state # "unsent" => ui_reqs[n].session_id = ui_sessionId)
    /\ [][ui_sessionId' = ui_sessionId]_vars

\* Two requests were sent at different times.
C18_Witness ==
    /\ ui_reqs[1].state = "done"
    /\ ui_reqs[2].state # "unsent"
    /\ ui_reqs[1].id # ui_reqs[2].id

\* C19: a request that failed was sent again at least once before the
\* failure was reported to the user.
C19_RetryBeforeFailure ==
    \A i \in 1..Len(ui_messages) :
        ui_messages[i].kind = "connect_error" => ui_reqs[ui_messages[i].req].posts >= 2

\* The messages shown for call n.
MessagesOf(messages, n) == {i \in 1..Len(messages) : messages[i].req = n}

\* C26: a chat HTTP error that carries a response body is returned by
\* sendChatMessage as a value, not thrown; the page shows it as one error
\* message with confidence 0 and no sources or links, and apiAvailable is
\* not set to false.
C26_ErrorBodyIsValue ==
    [][\A n \in Sends :
          (InFlight(n) /\ ui_reqs'[n].state = "done"
                       /\ ui_reqs'[n].transport \in HttpErrorBodies) =>
              /\ ui_reqs'[n].outcome # "thrown"
              /\ ui_apiAvailable' = ui_apiAvailable
              /\ Cardinality(MessagesOf(ui_messages', n)) = 1
              /\ LET shown == ui_messages'[Len(ui_messages')]
                 IN  /\ shown.req = n
                     /\ shown.kind = "error"
                     /\ ~shown.isLoading
                     /\ shown.confidence = 0
                     /\ shown.sources = <<>>
                     /\ shown.links = <<>>]_vars

\* A request ended in an HTTP error with a body and the API still counts as
\* available.
C26_Witness ==
    \E n \in Sends :
        /\ ui_reqs[n].state = "done"
        /\ ui_reqs[n].transport \in HttpErrorBodies
        /\ ui_apiAvailable
        /\ \E i \in 1..Len(ui_messages) :
               ui_messages[i].req = n /\ ui_messages[i].kind = "error"

\* The chat input takes no submit: it is disabled or shown as loading.
InputBlocked == ui_render.isLoading \/ ~ui_render.apiAvailable

\* C25 as stated: once a chat request has thrown, apiAvailable is false and
\* stays false whatever happens later, the chat input stays disabled and no
\* further chat request is sent.  Refuted: the availability check started at
\* mount can resolve after the failure and writes its result.
C25_StaysUnavailable ==
    (\E n \in Sends : ui_reqs[n].outcome = "thrown") =>
        /\ ~ui_apiAvailable
        /\ InputBlocked
        /\ \A m \in Sends : ~InFlight(m)

\* C25, amended: once a chat request has thrown after the availability
\* check of the mount completed, apiAvailable is false for good, the chat
\* input stays disabled and no further chat request is sent; and the only
\* event that ever sets apiAvailable back to true is the completion of that
\* check.
C25_UnavailableAfterCheck ==
    /\ [](  (\E n \in Sends : ui_reqs[n].outcome = "thrown" /\ ui_reqs[n].checked) =>
               /\ ~ui_apiAvailable
               /\ InputBlocked
               /\ \A m \in Sends : ~InFlight(m))
    /\ [][(~ui_apiAvailable /\ ui_apiAvailable') =>
              (ui_health = "pending" /\ ui_health' = "done")]_vars

\* A request threw after the availability check had answered that the API
\* is available, and the page has rendered since.
C25_Witness ==
    /\ \E n \in Sends :
           /\ ui_reqs[n].outcome = "thrown" /\ ui_reqs[n].checked
           /\ \E m \in Sends : ui_reqs[m].state = "unsent"
    /\ ~ui_render.isLoading

(***************************************************************************)
(* Front end: the Message component of one answer and its feedback.        *)
(***************************************************************************)
QueryIds == 1..MaxQueryIds

Ratings == {"thumbs_up", "thumbs_down"}

\* The comment argument sendFeedback is called without.
Undefined == <<-1>>

\* The comments typed into the feedback form.
Comments == {<<>>, <<1>>}

\* The bodies /api/chat answers with: two questions asked in one session get
\* different query ids, also when question and answer are the same.
ChatResponseBodies ==
    [query_id : QueryIds, session_id : {1}, query : {<<1>>}, answer : {<<2>>}]

\* The props the page hands to Message, from the message handleSendMessage
\* built of the response.
message_props(data) == [query |-> data.query, answer |-> data.answer]

\* The FeedbackData sendFeedback builds: comment || ''.
feedbackData(props, rating, comment) ==
    [query |-> props.query, answer |-> props.answer, rating |-> rating,
     comment |-> IF comment = Undefined THEN <<>> ELSE comment]

FeedbackInit ==
    /\ fb_response \in ChatResponseBodies
    /\ fb_props = message_props(fb_response)
    /\ fb_feedback = "null"
    /\ fb_feedbackSent = FALSE
    /\ fb_showForm = FALSE
    /\ fb_comment = <<>>
    /\ fb_render = [feedbackSent |-> FALSE, showFeedbackForm |-> FALSE,
                    feedbackComment |-> <<>>]
    /\ fb_posts = <<>>
    /\ fb_timers = 0

\* React renders the component: the handlers now read the current state.
FeedbackRender ==
    LET now == [feedbackSent |-> fb_feedbackSent, showFeedbackForm |-> fb_showForm,
                feedbackComment |-> fb_comment] IN
    /\ fb_render # now
    /\ fb_render' = now
    /\ UNCHANGED <<fb_response, fb_props, fb_feedback, fb_feedbackSent, fb_showForm,
                   fb_comment, fb_posts, fb_timers,
                   pageVars, inputVars, displayVars, statusVars, chunkVars, confVars, serverVars>>

\* apiService.sendFeedback posts the feedback to /api/feedback.
post_feedback(posts, body) == Append(posts, [body |-> body, state |-> "inflight"])

\* What the component shows once an event handler has returned: React
\* commits the state set during an event before it dispatches the next one.
feedback_rendered(feedbackSent, showFeedbackForm, feedbackComment) ==
    [feedbackSent |-> feedbackSent, showFeedbackForm |-> showFeedbackForm,
     feedbackComment |-> feedbackComment]

\* handleFeedback: a thumb is clicked. Thumbs down opens the form, thumbs up
\* sends the feedback at once.
HandleFeedback(rating) ==
    /\ ~fb_render.feedbackSent
    /\ fb_feedback' = rating
    /\ IF rating = "thumbs_down"
       THEN /\ fb_showForm' = TRUE
            /\ UNCHANGED fb_posts
       ELSE /\ Len(fb_posts) < MaxPosts
            /\ fb_posts' = post_feedback(fb_posts,
                                         feedbackData(fb_props, rating, Undefined))
            /\ UNCHANGED fb_showForm
    /\ fb_render' = feedback_rendered(fb_feedbackSent, fb_showForm', fb_comment)
    /\ UNCHANGED <<fb_response, fb_props, fb_feedbackSent, fb_comment, fb_timers,
                   pageVars, inputVars, displayVars, statusVars, chunkVars, confVars, serverVars>>

\* The textarea of the feedback form changes.
SetFeedbackComment(comment) ==
    /\ fb_render.showFeedbackForm
    /\ fb_comment # comment
    /\ fb_comment' = comment
    /\ fb_render' = feedback_rendered(fb_feedbackSent, fb_showForm, comment)
    /\ UNCHANGED <<fb_response, fb_props, fb_feedback, fb_feedbackSent, fb_showForm,
                   fb_posts, fb_timers,
                   pageVars, inputVars, displayVars, statusVars, chunkVars, confVars, serverVars>>

\* Cancel of the feedback form.
CancelFeedbackForm ==
    /\ fb_render.showFeedbackForm
    /\ fb_showForm' = FALSE
    /\ fb_render' = feedback_rendered(fb_feedbackSent, FALSE, fb_comment)
    /\ UNCHANGED <<fb_response, fb_props, fb_feedback, fb_feedbackSent, fb_comment,
                   fb_posts, fb_timers,
                   pageVars, inputVars, displayVars, statusVars, chunkVars, confVars, serverVars>>

\* Send Feedback of the feedback form: sendFeedback('thumbs_down', feedbackComment).
\* The button is not disabled by feedbackSent.
SendFeedbackForm ==
    /\ fb_render.showFeedbackForm
    /\ Len(fb_posts) < MaxPosts
    /\ fb_posts' = post_feedback(fb_posts,
                                 feedbackData(fb_props, "thumbs_down",
                                              fb_render.feedbackComment))
    /\ fb_render' = feedback_rendered(fb_feedbackSent, fb_showForm, fb_comment)
    /\ UNCHANGED <<fb_response, fb_props, fb_feedback, fb_feedbackSent, fb_showForm,
                   fb_comment, fb_timers,
                   pageVars, inputVars, displayVars, statusVars, chunkVars, confVars, serverVars>>

\* A plausible slip: feedbackSent is set whether or not the request succeeded.
feedback_sent_after_any(ok, feedbackSent) == TRUE

\* setFeedbackSent(true) follows the await in the try block: a request that
\* fails skips it, and the catch block only logs.
feedback_sent_after(ok, feedbackSent) == IF ok THEN TRUE ELSE feedbackSent

\* POST i settles: on success sendFeedback sets feedbackSent, closes the form
\* and starts the 3 s timer; on failure it only logs the error.
SettleFeedback(i, ok) ==
    /\ i \in 1..Len(fb_posts)
    /\ fb_posts[i].state = "inflight"
    /\ fb_posts' = [fb_posts EXCEPT ![i].state = IF ok THEN "sent" ELSE "failed"]
    /\ fb_feedbackSent' = feedback_sent_after(ok, fb_feedbackSent)
    /\ IF ok
       THEN /\ fb_showForm' = FALSE
            /\ fb_timers' = fb_timers + 1
       ELSE UNCHANGED <<fb_showForm, fb_timers>>
    /\ UNCHANGED <<fb_response, fb_props, fb_feedback, fb_comment, fb_render,
                   pageVars, inputVars, displayVars, statusVars, chunkVars, confVars, serverVars>>

\* A 3 s timer fires: setFeedbackSent(false).
FeedbackTimer ==
    /\ fb_timers > 0
    /\ fb_timers' = fb_timers - 1
    /\ fb_feedbackSent' = FALSE
    /\ UNCHANGED <<fb_response, fb_props, fb_feedback, fb_showForm, fb_comment,
                   fb_render, fb_posts,
                   pageVars, inputVars, displayVars, statusVars, chunkVars, confVars, serverVars>>

\* C11: every feedback request identifies the answer it rates by the
\* query_id (with the session_id) the backend gave that answer.
C11_FeedbackNamesQueryRecord ==
    \A i \in 1..Len(fb_posts) :
        /\ {"query_id", "session_id"} \subseteq DOMAIN fb_posts[i].body
        /\ fb_posts[i].body.query_id = fb_response.query_id
        /\ fb_posts[i].body.session_id = fb_response.session_id

\* C27: for one displayed answer at most one feedback request is ever sent,
\* whatever is clicked and whenever.
C27_OneFeedbackRequest == Len(fb_posts) <= 1

\* The feedback state of the component, rendered and not.
feedbackState ==
    <<fb_feedback, fb_feedbackSent, fb_showForm, fb_comment, fb_render, fb_timers>>

\* C28: a feedback request that fails changes nothing of the feedback state:
\* feedbackSent is not set, an open form stays open with its text and the
\* buttons stay as they were, so the user can send again; and feedbackSent
\* becomes true only when a feedback request succeeds.
C28_FailureLeavesState ==
    [][/\ (\E i \in 1..Len(fb_posts) :
              fb_posts[i].state = "inflight" /\ fb_posts'[i].state = "failed")
          => UNCHANGED feedbackState
       /\ (~fb_feedbackSent /\ fb_feedbackSent')
          => \E i \in 1..Len(fb_posts) :
                 fb_posts[i].state = "inflight" /\ fb_posts'[i].state = "sent"]_vars

\* The form's feedback failed, the form is still open with its text and no
\* thank-you is shown, and the user has sent it again.
C28_Witness ==
    /\ Len(fb_posts) = 2
    /\ fb_posts[1].state = "failed"
    /\ fb_posts[1].body.rating = "thumbs_down"
    /\ fb_posts[2].body = fb_posts[1].body
    /\ ~fb_feedbackSent /\ ~fb_render.feedbackSent
    /\ fb_showForm /\ fb_render.showFeedbackForm
    /\ fb_comment # <<>>

(***************************************************************************)
(* Front end: the chat input.  Its text is kept as runs of characters, as  *)
(* the queries of the backend are, so that texts of a thousand characters  *)
(* and more are typed.                                                     *)
(***************************************************************************)
InputRunLens == {1, QueryLimit, QueryLimit + 1}

\* The texts the textarea can hold: it sets no maxLength.
InputTexts ==
    {q \in SeqsUpTo([ws : BOOLEAN, n : InputRunLens], MaxRuns) :
        \A i \in 1..(Len(q) - 1) : q[i].ws # q[i + 1].ws}

\* message.trim()
trim(text) == query_strip(text)

\* A plausible slip: handleSubmit does not test disabled.
submit_returns_early_ignoring_disabled(trimmedMessage, isLoading, disabled) ==
    trimmedMessage = <<>> \/ isLoading

\* handleSubmit: if (!trimmedMessage || isLoading || disabled) return
submit_returns_early(trimmedMessage, isLoading, disabled) ==
    trimmedMessage = <<>> \/ isLoading \/ disabled

InputInit ==
    /\ ci_message = <<>>
    /\ ci_props \in [isLoading : BOOLEAN, disabled : BOOLEAN]
    /\ ci_submits = 0
    /\ ci_calls = 0
    /\ ci_last = <<>>

\* The textarea changes, or an example question is clicked: setMessage.
SetMessage(text) ==
    /\ ci_message # text
    /\ ci_message' = text
    /\ UNCHANGED <<ci_props, ci_submits, ci_calls, ci_last, pageVars, feedbackVars,
                   displayVars, statusVars, chunkVars, confVars, serverVars>>

\* The page renders the input with other props.
SetInputProps(props) ==
    /\ ci_props # props
    /\ ci_props' = props
    /\ UNCHANGED <<ci_message, ci_submits, ci_calls, ci_last, pageVars, feedbackVars,
                   displayVars, statusVars, chunkVars, confVars, serverVars>>

\* handleSubmit, from the send button or from Enter without Shift.
HandleSubmit ==
    LET trimmedMessage == trim(ci_message) IN
    /\ ci_submits < MaxSubmits
    /\ ci_submits' = ci_submits + 1
    /\ IF submit_returns_early(trimmedMessage, ci_props.isLoading, ci_props.disabled)
       THEN UNCHANGED <<ci_message, ci_calls, ci_last>>
       ELSE /\ ci_calls' = ci_calls + 1
            /\ ci_last' = trimmedMessage
            /\ ci_message' = <<>>
    /\ UNCHANGED <<ci_props, pageVars, feedbackVars, displayVars, statusVars, chunkVars, confVars,
                   serverVars>>

\* C15: the chat input hands onSendMessage no message of more than 1000
\* characters.
C15_InputLengthLimit ==
    ci_calls > 0 => query_len(ci_last) <= QueryLimit

\* C16: no empty or blank message is handed on.  A submit whose trimmed
\* text is empty, or made while isLoading or disabled is set, calls
\* onSendMessage no time and leaves the text as it is; any other submit
\* calls it once with the trimmed text and clears the text.
C16_SubmitGuard ==
    /\ [](ci_calls > 0 => query_len(query_strip(ci_last)) > 0)
    /\ [][ci_submits' # ci_submits =>
             LET trimmed == query_strip(ci_message) IN
             IF query_len(trimmed) = 0 \/ ci_props.isLoading \/ ci_props.disabled
             THEN ci_calls' = ci_calls /\ ci_last' = ci_last /\ ci_message' = ci_message
             ELSE /\ ci_calls' = ci_calls + 1
                  /\ ci_last' = trimmed
                  /\ query_len(ci_last') < query_len(ci_message) =>
                         (Head(ci_message).ws \/ ci_message[Len(ci_message)].ws)
                  /\ ci_message' = <<>>]_vars

\* One submit was refused while the input was disabled and held a text, and
\* one was accepted.
C16_Witness ==
    /\ ci_submits = 2
    /\ ci_calls = 1
    /\ ci_last # <<>>
    /\ ci_props.disabled
    /\ ci_message # <<>>

(***************************************************************************)
(* Front end: the confidence shown with an answer.  The confidence is the  *)
(* number the backend rounded to three places, kept in thousandths.        *)
(***************************************************************************)
Confidences == 0..One

\* Math.round(confidence * 100): the nearest integer, a tie upwards; the
\* product is a float, so that a tie can come out on either side.
round_percentage(confidence) ==
    IF confidence % 10 = 5
    THEN {confidence \div 10, confidence \div 10 + 1}
    ELSE {(confidence + 5) \div 10}

\* formatConfidence, from the percentage on
formatConfidence(percentage) ==
    IF percentage >= 80 THEN "High"
    ELSE IF percentage >= 60 THEN "Medium"
    ELSE IF percentage >= 40 THEN "Low"
    ELSE "Very Low"

\* getConfidenceColor, from the percentage on
getConfidenceColor(percentage) ==
    IF percentage >= 80 THEN "text-green-600"
    ELSE IF percentage >= 60 THEN "text-yellow-600"
    ELSE IF percentage >= 40 THEN "text-orange-600"
    ELSE "text-red-600"

DisplayInit ==
    /\ cd_confidence \in Confidences
    /\ cd_label = ""
    /\ cd_color = ""
    /\ cd_pc = "input"

\* Message renders the confidence of its answer.
ShowConfidence ==
    /\ cd_pc = "input"
    /\ \E percentage \in round_percentage(cd_confidence) :
          /\ cd_label' = formatConfidence(percentage)
          /\ cd_color' = getConfidenceColor(percentage)
    /\ cd_pc' = "done"
    /\ UNCHANGED <<cd_confidence, pageVars, feedbackVars, inputVars, statusVars,
                   chunkVars, confVars, serverVars>>

\* C20: a score of 0.7 or more is shown as High in green, a score of at
\* least 0.4 and below 0.7 as Medium in yellow, a score below 0.4 as Low in
\* red.
C20_ConfidenceClasses ==
    cd_pc = "done" =>
        IF cd_confidence >= (7 * One) \div 10
        THEN cd_label = "High" /\ cd_color = "text-green-600"
        ELSE IF cd_confidence >= (4 * One) \div 10
        THEN cd_label = "Medium" /\ cd_color = "text-yellow-600"
        ELSE cd_label = "Low" /\ cd_color = "text-red-600"

(***************************************************************************)
(* Front end: the status indicator.  checkStatus runs at mount and on every *)
(* 30 s tick of the interval; a request gives up after 30 s, so a check can *)
(* still be pending when the next one starts, and no more than that.  The   *)
(* indicator shows the state as the last settled or started check left it. *)
(***************************************************************************)
\* The /api/status responses: data of a healthy store with documents, data
\* of a store that is not, and a response without data.
StatusBodies == {"healthy", "limited", "nodata"}

Rejected == "rejected"

FailedToGetStatus == "Failed to get system status"

\* A plausible slip: the catch block records no error.
status_after_unrecorded(outcome, status, error) ==
    IF outcome = Rejected THEN [status |-> "null", error |-> error]
    ELSE [status |-> outcome, error |-> "null"]

\* checkStatus after its await: setStatus(statusData), setError(null), or in
\* the catch block setError(err.message), setStatus(null).
status_after(outcome, status, error) ==
    IF outcome = Rejected THEN [status |-> "null", error |-> FailedToGetStatus]
    ELSE [status |-> outcome, error |-> "null"]

\* What StatusIndicator renders.
Indicator(status, isLoading, error) ==
    IF isLoading /\ status = "null" THEN "Checking system status..."
    ELSE IF error # "null" THEN "API Offline"
    ELSE IF status \in {"null", "nodata"} THEN "Status Unknown"
    ELSE IF status = "healthy" THEN "System Online"
    ELSE "Limited Functionality"

Shown == Indicator(st_status, st_isLoading, st_error)

StatusInit ==
    /\ st_status = "null"
    /\ st_isLoading = TRUE
    /\ st_error = "null"
    /\ st_checks = <<>>

\* checkStatus starts, at mount or on a tick of the interval: every check
\* but the one before it has settled by then.
StartCheck ==
    /\ Len(st_checks) < MaxChecks
    /\ \A i \in 1..(Len(st_checks) - 1) : st_checks[i].state # "inflight"
    /\ st_isLoading' = TRUE
    /\ st_checks' = Append(st_checks, [state |-> "inflight", outcome |-> "none"])
    /\ UNCHANGED <<st_status, st_error>>
    /\ UNCHANGED <<pageVars, feedbackVars, inputVars, displayVars,
                   chunkVars, confVars, serverVars>>

\* The request of check i settles and checkStatus runs to its end.
SettleCheck(i, outcome) ==
    /\ i \in 1..Len(st_checks)
    /\ st_checks[i].state = "inflight"
    /\ st_checks' = [st_checks EXCEPT ![i] = [state |-> "settled", outcome |-> outcome]]
    /\ LET after == status_after(outcome, st_status, st_error)
       IN  st_status' = after.status /\ st_error' = after.error
    /\ st_isLoading' = FALSE
    /\ UNCHANGED <<pageVars, feedbackVars, inputVars, displayVars,
                   chunkVars, confVars, serverVars>>

CheckStarts == Len(st_checks') = Len(st_checks) + 1

CheckSettles(outcomes) ==
    \E i \in 1..Len(st_checks) :
        /\ st_checks[i].state = "inflight"
        /\ st_checks'[i].state = "settled"
        /\ st_checks'[i].outcome \in outcomes

\* C29: when status checks overlap, the status and error shown once all
\* have settled are those of the check started last, whatever order the
\* responses arrive in.
C29_LatestCheckShown ==
    (st_checks # <<>> /\ \A i \in 1..Len(st_checks) : st_checks[i].state = "settled") =>
        LET latest == status_after(st_checks[Len(st_checks)].outcome, "null", "null")
        IN  st_status = latest.status /\ st_error = latest.error

\* C30 as stated: once a check has failed the indicator shows API Offline,
\* and keeps showing it until a check succeeds, also while the next check
\* is in progress; and it shows API Offline only after a check has failed.
\* Refuted: the next check sets isLoading while status is null, and the
\* indicator shows that it is checking.
C30_OfflineUntilSuccess ==
    [][/\ CheckSettles({Rejected}) => Shown' = "API Offline"
       /\ (Shown = "API Offline" /\ Shown' # "API Offline") => CheckSettles(StatusBodies)
       /\ (Shown # "API Offline" /\ Shown' = "API Offline") => CheckSettles({Rejected})]_vars

\* C30, amended: once a check has failed the indicator shows API Offline
\* until the next check starts, when it shows that it is checking, or until
\* a check succeeds; and it comes to show API Offline only when a check
\* fails.
C30_OfflineUntilNextCheck ==
    [][/\ CheckSettles({Rejected}) => Shown' = "API Offline"
       /\ (Shown = "API Offline" /\ Shown' # "API Offline") =>
              \/ CheckSettles(StatusBodies)
              \/ CheckStarts /\ Shown' = "Checking system status..."
       /\ (Shown # "API Offline" /\ Shown' = "API Offline") => CheckSettles({Rejected})]_vars

\* A check failed, the next one started and succeeded.
C30_Witness ==
    /\ Len(st_checks) >= 2
    /\ st_checks[1] = [state |-> "settled", outcome |-> Rejected]
    /\ st_checks[2].state = "settled" /\ st_checks[2].outcome \in StatusBodies
    /\ Shown # "API Offline"

(***************************************************************************)
(* Specifications.                                                         *)
(***************************************************************************)
ChunkIdle ==
    /\ ck_sentences = <<>> /\ ck_size = 1 /\ ck_overlap = 0 /\ ck_i = 1
    /\ ck_current = <<>> /\ ck_chunks = <<>> /\ ck_pc = "idle"

ConfIdle ==
    /\ cf_sources = 0
    /\ cf_scores = [relevance |-> 0, completeness |-> 0,
                    consistency |-> 0, complexity |-> 0]
    /\ cf_conf = -1
    /\ cf_pc = "idle"

\* The Document Processor chunking one text.
InitChunk == ChunkInit /\ ConfIdle /\ ServerIdle /\ ClientIdle

ChunkNext == ChunkStep \/ ChunkReturn

SpecChunk == InitChunk /\ [][ChunkNext]_vars

\* The Answer Generator scoring one answer.
InitConf == ConfInit /\ ChunkIdle /\ ServerIdle /\ ClientIdle

SpecConf == InitConf /\ [][CalculateConfidence]_vars

\* The API boundary serving chat and status requests.
ServerNext ==
    \/ \E r \in Requests, q \in Queries : ChatStart(r, q)
    \/ \E r \in Requests, outcome \in Outcomes : ChatCompletion(r, outcome)
    \/ Status
    \/ StoreFail
    \/ StoreRecover

InitServer == ServerInit /\ ChunkIdle /\ ConfIdle /\ ClientIdle

SpecServer == InitServer /\ [][ServerNext]_vars

\* Chat requests served while the index is reloaded.
ReloadNext ==
    \/ \E corpus \in Corpora : ReloadStart(corpus)
    \/ ReloadAdd
    \/ ReloadSwap
    \/ \E r \in Requests : ChatStart(r, PlainQuery)
    \/ \E r \in Requests, outcome \in Outcomes : ChatCompletion(r, outcome)

InitReload == InitServer /\ sv_config.api_key # None

SpecReload == InitReload /\ [][ReloadNext]_vars

\* The ingestion of one folder.
InitIngest == IngestInit /\ ApiIdle /\ QueryIdle /\ LogIdle /\ ChunkIdle /\ ConfIdle /\ ClientIdle

IngestNext == IngestStep \/ IngestReturn

SpecIngest == InitIngest /\ [][IngestNext]_vars

\* Requests writing to the logs.
InitLog == LogInit /\ ApiIdle /\ QueryIdle /\ IngestIdle /\ ChunkIdle /\ ConfIdle /\ ClientIdle

LogNext ==
    \/ \E w \in Writers, log \in LogNames : LogOpen(w, log)
    \/ \E w \in Writers : LogWrite(w)

SpecLog == InitLog /\ [][LogNext]_vars

\* One retrieval.
InitQuery ==
    /\ QueryInit /\ ApiIdle /\ LogIdle /\ IngestIdle
    /\ ChunkIdle /\ ConfIdle /\ ClientIdle

QueryNext == Search \/ Rank \/ FormatSources

SpecQuery == InitQuery /\ [][QueryNext]_vars

\* One answer's Message component and the feedback sent from it.
InitFeedback == FeedbackInit /\ PageIdle /\ InputIdle /\ DisplayIdle /\ StatusIdle /\ ChunkIdle /\ ConfIdle /\ ServerIdle

FeedbackNext ==
    \/ FeedbackRender
    \/ \E rating \in Ratings : HandleFeedback(rating)
    \/ \E comment \in Comments : SetFeedbackComment(comment)
    \/ CancelFeedbackForm
    \/ SendFeedbackForm
    \/ \E i \in 1..MaxPosts, ok \in BOOLEAN : SettleFeedback(i, ok)
    \/ FeedbackTimer

SpecFeedback == InitFeedback /\ [][FeedbackNext]_vars

\* The chat input and the messages it hands on.
InitInput == InputInit /\ PageIdle /\ FeedbackIdle /\ DisplayIdle /\ StatusIdle /\ ChunkIdle /\ ConfIdle
             /\ ServerIdle

InputNext ==
    \/ \E text \in InputTexts : SetMessage(text)
    \/ \E props \in [isLoading : BOOLEAN, disabled : BOOLEAN] : SetInputProps(props)
    \/ HandleSubmit

SpecInput == InitInput /\ [][InputNext]_vars

\* The confidence of one answer on display.
InitDisplay == DisplayInit /\ PageIdle /\ FeedbackIdle /\ InputIdle /\ StatusIdle /\ ChunkIdle /\ ConfIdle
               /\ ServerIdle

SpecDisplay == InitDisplay /\ [][ShowConfidence]_vars

\* The status indicator.
InitStatus ==
    /\ StatusInit /\ PageIdle /\ FeedbackIdle /\ InputIdle /\ DisplayIdle
    /\ ChunkIdle /\ ConfIdle /\ ServerIdle

StatusNext ==
    \/ StartCheck
    \/ \E i \in 1..MaxChecks, outcome \in StatusBodies \cup {Rejected} :
           SettleCheck(i, outcome)

SpecStatus == InitStatus /\ [][StatusNext]_vars

\* The chat page, with the requests it sends.
InitClient == ClientInit /\ FeedbackIdle /\ InputIdle /\ DisplayIdle /\ StatusIdle /\ ChunkIdle /\ ConfIdle /\ ServerIdle

ClientNext ==
    \/ Tick
    \/ Render
    \/ \E available \in BOOLEAN : CheckApiAvailability(available)
    \/ \E text \in Texts : HandleSendMessage(text)
    \/ \E n \in Sends, transport \in Transports : SettleSendMessage(n, transport)

SpecClient == InitClient /\ [][ClientNext]_vars

\* Every request sent settles: axios answers, fails, or times out after 30 s.
FairClient ==
    SpecClient /\ \A n \in Sends :
        WF_vars(\E transport \in Transports : SettleSendMessage(n, transport))

====
